---- MODULE Spec2Model ----
(***************************************************************************)
(* Model of the two batch scripts of the repository.                       *)
(*                                                                         *)
(*   Collector  (src/fileextracter.py): walks a source tree and copies     *)
(*              every *.cnf / *.cnf.xz file into the flat folder           *)
(*              `cnffiles`, renaming on a name collision.                  *)
(*   Extractor  (src/fileconverter.py): decompresses every *.cnf.xz entry  *)
(*              of `cnffiles` into the folder `extracted`.                 *)
(*                                                                         *)
(* File names are sequences of one-character strings, file contents are    *)
(* sequences of bytes (naturals).  A folder is a function from the names   *)
(* it holds to entries [kind, data].  The file system is either case       *)
(* sensitive or case insensitive (chosen once, in Init).                   *)
(***************************************************************************)
EXTENDS Integers, Sequences, FiniteSets, TLC

\* ------------------------------------------------------------------ bounds
MaxFiles == 3            \* files in the source tree
MaxEntries == 3          \* entries of the Extractor's source folder
MaxCollectorRuns == 1    \* runs of the Collector in one behaviour
MaxExtractorRuns == 2    \* runs of the Extractor in one behaviour
MaxCount == 20           \* cap of the rename counter

\* ------------------------------------------------------------ str helpers
UpperLetters ==
  <<"A","B","C","D","E","F","G","H","I","J","K","L","M",
    "N","O","P","Q","R","S","T","U","V","W","X","Y","Z">>
LowerLetters ==
  <<"a","b","c","d","e","f","g","h","i","j","k","l","m",
    "n","o","p","q","r","s","t","u","v","w","x","y","z">>
Digits == <<"0","1","2","3","4","5","6","7","8","9">>

\* str.lower()
Lower(s) ==
  [i \in 1..Len(s) |->
     IF \E k \in 1..26 : UpperLetters[k] = s[i]
       THEN LowerLetters[CHOOSE k \in 1..26 : UpperLetters[k] = s[i]]
       ELSE s[i]]

\* str.endswith(suffix)
EndsWith(s, suffix) ==
  /\ Len(s) >= Len(suffix)
  /\ SubSeq(s, Len(s) - Len(suffix) + 1, Len(s)) = suffix

\* str(count) as used by the f-string
RECURSIVE Str(_)
Str(n) ==
  IF n < 10 THEN <<Digits[n + 1]>>
            ELSE Str(n \div 10) \o <<Digits[(n % 10) + 1]>>

DotCnf == <<".","c","n","f">>
DotCnfXz == <<".","c","n","f",".","x","z">>

\* os.path.splitext on a bare file name: split at the last dot, unless the
\* name has no dot or only leading dots.
SplitExt(p) ==
  LET dots == {i \in 1..Len(p) : p[i] = "."}
  IN IF dots = {} THEN <<p, <<>> >>
     ELSE LET dotIndex == CHOOSE i \in dots : \A j \in dots : j <= i
          IN IF \E k \in 1..(dotIndex - 1) : p[k] # "."
               THEN <<SubSeq(p, 1, dotIndex - 1), SubSeq(p, dotIndex, Len(p))>>
               ELSE <<p, <<>> >>

\* ------------------------------------------------------------ file system
File(d) == [kind |-> "file", data |-> d]
Dir == [kind |-> "dir", data |-> <<>>]

\* The name under which the file system looks an entry up.
Key(cs, name) == IF cs THEN name ELSE Lower(name)

\* os.path.exists(os.path.join(folder, name))
PathExists(cs, folder, name) ==
  \E m \in DOMAIN folder : Key(cs, m) = Key(cs, name)

\* The stored name of the entry a path resolves to (when it exists).
Resolve(cs, folder, name) ==
  CHOOSE m \in DOMAIN folder : Key(cs, m) = Key(cs, name)

\* The folder after path `name` is created or truncated and d is written.
WriteFile(cs, folder, name, d) ==
  IF PathExists(cs, folder, name)
    THEN [folder EXCEPT ![Resolve(cs, folder, name)] = File(d)]
    ELSE [m \in DOMAIN folder \cup {name} |->
            IF m = name THEN File(d) ELSE folder[m]]

\* xz container: a header followed by the payload.
XzHeader == <<253>>
XzCompress(d) == XzHeader \o d
IsXz(d) == Len(d) >= Len(XzHeader) /\ SubSeq(d, 1, Len(XzHeader)) = XzHeader
XzDecompress(d) == SubSeq(d, Len(XzHeader) + 1, Len(d))


\* ------------------------------------------------------------ environment
N_a_cnf == <<"a",".","c","n","f">>
N_a_1_cnf == <<"a","_","1",".","c","n","f">>
N_a_cnf_xz == <<"a",".","c","n","f",".","x","z">>
N_a_cnf_XZ == <<"a",".","c","n","f",".","X","Z">>
N_b_cnf_xz == <<"b",".","c","n","f",".","x","z">>
N_a_cnf_1_xz == <<"a",".","c","n","f","_","1",".","x","z">>
N_a_txt == <<"a",".","t","x","t">>
N_A_CNF == <<"A",".","C","N","F">>

\* Kinds of file the source tree may hold: a name and how the content is
\* derived from the file's identity (its position in the walk).
\*   "plain": raw bytes; "xz": an xz stream.
SourceKinds ==
  { [name |-> N_a_cnf,    fmt |-> "plain"],
    [name |-> N_a_cnf_xz, fmt |-> "xz"],
    [name |-> N_a_cnf_XZ, fmt |-> "xz"],
    [name |-> N_a_txt,    fmt |-> "plain"] }

\* Content of the i-th file of the walk.
SourceData(i, fmt) == IF fmt = "xz" THEN XzCompress(<<i>>) ELSE <<i>>

\* tree[i] is the file  d<i>/name : every file sits in a directory of its
\* own, so any sequence of names is a tree, visited by os.walk in the
\* order of the sequence.
Trees ==
  UNION { [1..n -> SourceKinds] : n \in 0..MaxFiles }

OldData == <<0>>

\* What the folder cnffiles may hold before a run of the Collector:
\* nothing, or a file and a directory left by earlier activity.
InitialCnfFiles ==
  { <<>>,
    (N_a_1_cnf :> File(OldData)) @@ (N_a_cnf_xz :> Dir) }

\* What the folder cnfextractedfiles may hold before any run.
InitialExtracted ==
  { <<>>,
    (N_a_cnf :> File(OldData)),
    (N_A_CNF :> File(OldData)),
    (N_a_cnf :> Dir) }

\* Names the Extractor's source folder may hold, each with the payload
\* that identifies it.
SourceNames == <<N_a_cnf_xz, N_a_cnf_XZ, N_b_cnf_xz, N_a_cnf_1_xz>>
Payload(name) == <<CHOOSE k \in 1..Len(SourceNames) : SourceNames[k] = name>>

\* An entry of that name is a valid xz file, a file that is no xz stream,
\* or a directory.
EntryChoices(name) ==
  { File(XzCompress(Payload(name))), File(Payload(name)), Dir }

\* The folders the Extractor may be run on: up to MaxEntries entries, with
\* names the file system tells apart.
SourceFolders(cs) ==
  LET names == {SourceNames[k] : k \in 1..Len(SourceNames)}
      entries == UNION {EntryChoices(n) : n \in names}
  IN UNION { { f \in [S -> entries] :
                 /\ \A n \in S : f[n] \in EntryChoices(n)
                 /\ \A m, n \in S : Key(cs, m) = Key(cs, n) => m = n }
             : S \in {T \in SUBSET names : Cardinality(T) <= MaxEntries} }

Orders(S) ==
  { f \in [1..Cardinality(S) -> S] :
      \A i, j \in 1..Cardinality(S) : f[i] = f[j] => i = j }

\* ------------------------------------------------------------------ state
VARIABLES
  caseSensitive,     \* the file system compares names case-sensitively
  tree,              \* the source tree, in walk order
  cnffiles,          \* Collector's destination = Extractor's source folder
  extracted,         \* Extractor's destination folder
  \* Collector
  cpc,               \* "idle", "for", "while", "copy", "done", "aborted"
  ci,                \* index of the current file of the walk
  destination_path,  \* file name part of destination_path
  base, ext, count,  \* locals of the rename loop
  cruns,             \* Collector runs started
  cout,              \* Collector's console output
  cstart,            \* history: cnffiles when the current run started
  copied,            \* history: <<[from, to]>> copies made by the run
  loopChecks,        \* history: evaluations of the while condition
  \* Extractor
  epc,               \* "idle", "loop", "done"
  listing,           \* result of os.listdir(source_folder)
  ei,                \* index of the current entry of listing
  eruns,             \* Extractor runs started
  eout,              \* Extractor's console output
  hist               \* history: [src, out] at the end of each Extractor run

cvars == <<cpc, ci, destination_path, base, ext, count, cruns, cout,
           cstart, copied, loopChecks>>
evars == <<epc, listing, ei, eruns, eout, hist>>
vars == <<caseSensitive, tree, cnffiles, extracted, cvars, evars>>

Idle ==
  /\ cpc = "idle" /\ ci = 1 /\ destination_path = <<>>
  /\ base = <<>> /\ ext = <<>> /\ count = 0 /\ cruns = 0 /\ cout = <<>>
  /\ cstart = cnffiles /\ copied = <<>> /\ loopChecks = 0
  /\ epc = "idle" /\ listing = <<>> /\ ei = 1 /\ eruns = 0 /\ eout = <<>>
  /\ hist = <<>>

\* The Collector is run on a source tree and a destination folder.
CollectorInit ==
  /\ caseSensitive \in BOOLEAN
  /\ tree \in Trees
  /\ cnffiles \in InitialCnfFiles
  /\ extracted = <<>>
  /\ Idle

\* The Extractor is run on a source folder and a destination folder.
ExtractorInit ==
  /\ caseSensitive \in BOOLEAN
  /\ tree = <<>>
  /\ cnffiles \in SourceFolders(caseSensitive)
  /\ extracted \in InitialExtracted
  /\ Idle

\* The two scripts are sequential batch jobs: one runs at a time.
NoneRunning ==
  /\ cpc \in {"idle", "done", "aborted"}
  /\ epc \in {"idle", "done"}

\* -------------------------------------------------------------- Collector
\* if file.lower().endswith(".cnf") or file.lower().endswith(".cnf.xz")
CollectorMatches(file) ==
  EndsWith(Lower(file), DotCnf) \/ EndsWith(Lower(file), DotCnfXz)

CollectedMessage == "All CNF files collected successfully!"
\* What the interpreter prints when an exception ends the script.
Traceback == "Traceback (most recent call last)"

\* Variant: the counter is ignored.
NewNameFixed(b, c, e) == b \o <<"_", "1">> \o e

\* Variant: the counter is formatted one too high.
NewNameOffByOne(b, c, e) == b \o <<"_">> \o Str(c + 1) \o e

\* f"{base}_{count}{ext}"
NewName(b, c, e) == b \o <<"_">> \o Str(c) \o e

\* The process is started; os.makedirs(destination, exist_ok=True).
CollectorStart ==
  /\ NoneRunning
  /\ cruns < MaxCollectorRuns
  /\ cpc' = "for" /\ ci' = 1 /\ cruns' = cruns + 1 /\ cout' = <<>>
  /\ cstart' = cnffiles /\ copied' = <<>> /\ loopChecks' = 0
  /\ UNCHANGED <<destination_path, base, ext, count>>
  /\ UNCHANGED <<caseSensitive, tree, cnffiles, extracted, evars>>

\* Head of the walk: the next file, its suffix test, and the first
\* existence test of its destination path.
CollectorFor ==
  /\ cpc = "for"
  /\ IF ci > Len(tree)
       THEN /\ cpc' = "done"
            /\ cout' = Append(cout, CollectedMessage)
            /\ UNCHANGED <<ci, destination_path, base, ext, count, loopChecks>>
       ELSE LET file == tree[ci].name IN
            IF ~CollectorMatches(file)
              THEN /\ ci' = ci + 1
                   /\ UNCHANGED <<cpc, cout, destination_path, base, ext,
                                  count, loopChecks>>
              ELSE /\ destination_path' = file
                   /\ loopChecks' = 0
                   /\ IF PathExists(caseSensitive, cnffiles, file)
                        THEN /\ base' = SplitExt(file)[1]
                             /\ ext' = SplitExt(file)[2]
                             /\ count' = 1
                             /\ cpc' = "while"
                        ELSE /\ cpc' = "copy"
                             /\ UNCHANGED <<base, ext, count>>
                   /\ UNCHANGED <<ci, cout>>
  /\ UNCHANGED <<cruns, cstart, copied>>
  /\ UNCHANGED <<caseSensitive, tree, cnffiles, extracted, evars>>

\* Variant: `if` instead of `while`, the new name is not checked again.
CollectorWhileOnce ==
  /\ cpc = "while"
  /\ count <= MaxCount
  /\ loopChecks' = loopChecks + 1
  /\ IF PathExists(caseSensitive, cnffiles, destination_path)
       THEN /\ destination_path' = NewName(base, count, ext)
            /\ count' = count + 1
       ELSE UNCHANGED <<destination_path, count>>
  /\ cpc' = "copy"
  /\ UNCHANGED <<ci, base, ext, cruns, cout, cstart, copied>>
  /\ UNCHANGED <<caseSensitive, tree, cnffiles, extracted, evars>>

\* One evaluation of the while condition and, when it holds, of the body.
CollectorWhile ==
  /\ cpc = "while"
  /\ count <= MaxCount
  /\ loopChecks' = loopChecks + 1
  /\ IF PathExists(caseSensitive, cnffiles, destination_path)
       THEN /\ destination_path' = NewName(base, count, ext)
            /\ count' = count + 1
            /\ UNCHANGED cpc
       ELSE /\ cpc' = "copy"
            /\ UNCHANGED <<destination_path, count>>
  /\ UNCHANGED <<ci, base, ext, cruns, cout, cstart, copied>>
  /\ UNCHANGED <<caseSensitive, tree, cnffiles, extracted, evars>>

\* Variant: a failed copy is reported and the walk goes on.
CollectorCopyContinue ==
  /\ cpc = "copy"
  /\ LET data == SourceData(ci, tree[ci].fmt) IN
     \/ /\ cnffiles' = WriteFile(caseSensitive, cnffiles, destination_path, data)
        /\ copied' = Append(copied, [from |-> ci, to |-> destination_path])
        /\ UNCHANGED cout
     \/ /\ cout' = Append(cout, Traceback)
        /\ UNCHANGED <<cnffiles, copied>>
  /\ ci' = ci + 1
  /\ cpc' = "for"
  /\ UNCHANGED <<destination_path, base, ext, count, cruns, cstart,
                 loopChecks>>
  /\ UNCHANGED <<caseSensitive, tree, extracted, evars>>

\* shutil.copy2(source_path, destination_path): it succeeds, or it raises
\* before the destination is created, or it raises after part of the
\* content was written.  The script catches nothing: an error ends the run.
CollectorCopy ==
  /\ cpc = "copy"
  /\ LET data == SourceData(ci, tree[ci].fmt) IN
     \/ /\ cnffiles' = WriteFile(caseSensitive, cnffiles, destination_path, data)
        /\ copied' = Append(copied, [from |-> ci, to |-> destination_path])
        /\ ci' = ci + 1
        /\ cpc' = "for"
        /\ UNCHANGED cout
     \/ /\ cpc' = "aborted"
        /\ cout' = Append(cout, Traceback)
        /\ UNCHANGED <<cnffiles, copied, ci>>
     \/ /\ cpc' = "aborted"
        /\ cout' = Append(cout, Traceback)
        /\ cnffiles' = WriteFile(caseSensitive, cnffiles, destination_path,
                                 SubSeq(data, 1, Len(data) - 1))
        /\ UNCHANGED <<copied, ci>>
  /\ UNCHANGED <<destination_path, base, ext, count, cruns, cstart,
                 loopChecks>>
  /\ UNCHANGED <<caseSensitive, tree, extracted, evars>>

\* -------------------------------------------------------------- Extractor
\* if file.lower().endswith(".cnf.xz")
ExtractorMatches(file) == EndsWith(Lower(file), DotCnfXz)

ExtractedMessage == "Extracted"
ErrorMessage == "Error extracting"
FinishedMessage == "All .cnf.xz files extracted successfully!"

\* cnf_filename = file[:-3]
CnfFilename(file) == SubSeq(file, 1, Len(file) - 3)

\* Variant: the output is opened for appending instead of truncated.
WriteOutputAppend(cs, folder, name, d) ==
  IF PathExists(cs, folder, name)
    THEN WriteFile(cs, folder, name,
                   folder[Resolve(cs, folder, name)].data \o d)
    ELSE WriteFile(cs, folder, name, d)

\* What open(cnf_path, "wb") followed by output.write(d) leaves behind.
WriteOutput(cs, folder, name, d) == WriteFile(cs, folder, name, d)

\* The process is started; os.makedirs; os.listdir(source_folder).  The
\* listing comes in an arbitrary order, which is stable as long as the
\* folder holds the same names.
ExtractorStart ==
  /\ NoneRunning
  /\ eruns < MaxExtractorRuns
  /\ IF Len(listing) = Cardinality(DOMAIN cnffiles)
        /\ {listing[i] : i \in 1..Len(listing)} = DOMAIN cnffiles
       THEN UNCHANGED listing
       ELSE listing' \in Orders(DOMAIN cnffiles)
  /\ epc' = "loop" /\ ei' = 1 /\ eruns' = eruns + 1 /\ eout' = <<>>
  /\ UNCHANGED hist
  /\ UNCHANGED <<caseSensitive, tree, cnffiles, extracted, cvars>>

\* One iteration of the for loop, with its try/except.
ExtractorStep ==
  /\ epc = "loop"
  /\ ei <= Len(listing)
  /\ LET file == listing[ei]
         cnf_filename == CnfFilename(file)
         err == [msg |-> ErrorMessage, file |-> file, to |-> <<>>]
     IN
     IF ~ExtractorMatches(file)
       THEN UNCHANGED <<extracted, eout>>
     ELSE IF cnffiles[file].kind = "dir"
       \* lzma.open(xz_path, "rb") raises
       THEN /\ eout' = Append(eout, err)
            /\ UNCHANGED extracted
     ELSE IF /\ PathExists(caseSensitive, extracted, cnf_filename)
             /\ extracted[Resolve(caseSensitive, extracted, cnf_filename)].kind
                  = "dir"
       \* open(cnf_path, "wb") raises
       THEN /\ eout' = Append(eout, err)
            /\ UNCHANGED extracted
     ELSE IF ~IsXz(cnffiles[file].data)
       \* compressed.read() raises, after the output was created/truncated
       THEN /\ eout' = Append(eout, err)
            /\ extracted' = WriteFile(caseSensitive, extracted, cnf_filename, <<>>)
     ELSE /\ extracted' = WriteOutput(caseSensitive, extracted, cnf_filename,
                                      XzDecompress(cnffiles[file].data))
          /\ eout' = Append(eout, [msg |-> ExtractedMessage, file |-> file,
                                   to |-> cnf_filename])
  /\ ei' = ei + 1
  /\ UNCHANGED <<epc, listing, eruns, hist>>
  /\ UNCHANGED <<caseSensitive, tree, cnffiles, cvars>>

\* The loop is exhausted: the final print.
ExtractorFinish ==
  /\ epc = "loop"
  /\ ei > Len(listing)
  /\ epc' = "done"
  /\ eout' = Append(eout, [msg |-> FinishedMessage,
                           file |-> <<>>, to |-> <<>>])
  /\ hist' = Append(hist, [src |-> cnffiles, out |-> extracted])
  /\ UNCHANGED <<listing, ei, eruns>>
  /\ UNCHANGED <<caseSensitive, tree, cnffiles, extracted, cvars>>

\* ---------------------------------------------------------- specification
CollectorStep == CollectorFor \/ CollectorWhile \/ CollectorCopy

CollectorNext ==
  \/ CollectorStart
  \/ CollectorFor
  \/ CollectorWhile
  \/ CollectorCopy

\* A started script keeps executing until it ends.
CollectorSpec ==
  CollectorInit /\ [][CollectorNext]_vars /\ WF_vars(CollectorStep)

ExtractorNext ==
  \/ ExtractorStart
  \/ ExtractorStep
  \/ ExtractorFinish

ExtractorSpec == ExtractorInit /\ [][ExtractorNext]_vars

TypeOK ==
  /\ cpc \in {"idle", "for", "while", "copy", "done", "aborted"}
  /\ epc \in {"idle", "loop", "done"}
  /\ count < MaxCount

\* ------------------------------------------------------ Collector: claims
\* A name the Collector is to collect.
IsTarget(name) ==
  EndsWith(Lower(name), DotCnf) \/ EndsWith(Lower(name), DotCnfXz)

\* base_N+ext of a file name.
Renamed(file, n) ==
  SplitExt(file)[1] \o <<"_">> \o Str(n) \o SplitExt(file)[2]

Copies == 1..Len(copied)
Printed(out, line) == \E i \in 1..Len(out) : out[i] = line

\* C1: in a Collector run from any destination folder, distinct source
\* files go to distinct destination names, the target of a copy never
\* exists (neither from before the run nor from earlier in it), the files
\* that were there and the copies made stay as they are, and when the run
\* completes every matching file of the tree has been copied exactly once.
C1_CopiedOnceNeverOverwritten ==
  /\ \A i, j \in Copies :
       i # j => /\ copied[i].from # copied[j].from
                /\ Key(caseSensitive, copied[i].to)
                     # Key(caseSensitive, copied[j].to)
  /\ \A i \in Copies : ~PathExists(caseSensitive, cstart, copied[i].to)
  /\ \A n \in DOMAIN cstart : n \in DOMAIN cnffiles /\ cnffiles[n] = cstart[n]
  /\ \A i \in Copies :
       /\ copied[i].to \in DOMAIN cnffiles
       /\ cnffiles[copied[i].to]
            = File(SourceData(copied[i].from, tree[copied[i].from].fmt))
  /\ cpc = "copy" => ~PathExists(caseSensitive, cnffiles, destination_path)
  /\ cpc = "done" =>
       \A k \in 1..Len(tree) :
         IsTarget(tree[k].name) =>
           Cardinality({i \in Copies : copied[i].from = k}) = 1

\* A completed run into a populated folder that copied two files of the
\* same name.
C1_Witness ==
  /\ cpc = "done"
  /\ cstart # <<>>
  /\ \E i, j \in Copies :
       i # j /\ tree[copied[i].from].name = tree[copied[j].from].name

\* C2: when the destination holds the matched file's name, the copy goes
\* to base_N+ext for the smallest N >= 1 that does not exist there, and
\* otherwise to the name itself; a tree whose k matching files all carry
\* one name, collected into a folder holding none of name, name_1, ...,
\* name_(k-1), adds exactly those k names.
C2_SmallestFreeCounter ==
  /\ cpc = "copy" =>
       LET file == tree[ci].name IN
       IF PathExists(caseSensitive, cnffiles, file)
         THEN \E N \in 1..MaxCount :
                /\ destination_path = Renamed(file, N)
                /\ ~PathExists(caseSensitive, cnffiles, Renamed(file, N))
                /\ \A M \in 1..(N - 1) :
                     PathExists(caseSensitive, cnffiles, Renamed(file, M))
         ELSE destination_path = file
  /\ cpc = "done" =>
       LET targets == {k \in 1..Len(tree) : IsTarget(tree[k].name)}
           k == Cardinality(targets)
       IN \A t \in targets :
            LET name == tree[t].name
                expected == {name} \cup {Renamed(name, m) : m \in 1..(k - 1)}
            IN (/\ \A u \in targets : tree[u].name = name
                /\ \A e \in expected : ~PathExists(caseSensitive, cstart, e))
               => DOMAIN cnffiles = DOMAIN cstart \cup expected

\* Three files named a.cnf collected into an empty folder.
C2_Witness ==
  /\ cpc = "done"
  /\ cstart = <<>>
  /\ DOMAIN cnffiles = {N_a_cnf, N_a_1_cnf, Renamed(N_a_cnf, 2)}

\* C6: once a copy has failed the run is over: the completion message is
\* not printed, only files visited before the failing one have been
\* copied, and those copies are in the destination with their content.
C6_CopyFailureAborts ==
  Printed(cout, Traceback) =>
    /\ cpc = "aborted"
    /\ ~Printed(cout, CollectedMessage)
    /\ \A i \in Copies :
         /\ copied[i].from < ci
         /\ copied[i].to \in DOMAIN cnffiles
         /\ cnffiles[copied[i].to]
              = File(SourceData(copied[i].from, tree[copied[i].from].fmt))
    /\ \A k \in ci..Len(tree) : \A i \in Copies : copied[i].from # k

\* A run that failed after a first copy, with a matching file still ahead.
C6_Witness ==
  /\ cpc = "aborted"
  /\ Len(copied) >= 1
  /\ \E k \in (ci + 1)..Len(tree) : IsTarget(tree[k].name)

\* C10: for every matching file the rename loop evaluates its condition at
\* most (number of entries of the destination + 1) times, and a run that
\* was started ends: with the completion message unless a copy failed.
C10_RenameLoopTerminates ==
  /\ [](loopChecks <= Cardinality(DOMAIN cnffiles) + 1)
  /\ (cpc \in {"for", "while", "copy"})
       ~> (\/ cpc = "done" /\ Printed(cout, CollectedMessage)
           \/ Printed(cout, Traceback))

\* The loop has used all the checks the bound allows, in a folder of two.
C10_Witness ==
  /\ cpc = "copy"
  /\ Cardinality(DOMAIN cnffiles) = 2
  /\ loopChecks = 3

\* C3: every copy of a source named *.cnf.xz is stored under a name the
\* Extractor's suffix test selects.
C3_CollectedXzIsExtractorInput ==
  \A i \in Copies :
    EndsWith(Lower(tree[copied[i].from].name), DotCnfXz)
      => ExtractorMatches(copied[i].to)


\* ------------------------------------------------------ Extractor: claims
\* A name the Extractor is to extract, and the name of its output.
IsCompressed(name) == EndsWith(Lower(name), DotCnfXz)
WithoutXz(name) == SubSeq(name, 1, Len(name) - 3)

\* The folder holds, under that name, a file with exactly this content.
HoldsFile(folder, name, d) ==
  /\ PathExists(caseSensitive, folder, name)
  /\ folder[Resolve(caseSensitive, folder, name)] = File(d)

Reported(msg, file) ==
  \E i \in 1..Len(eout) : eout[i].msg = msg /\ eout[i].file = file

\* Opening, decompressing or writing fails for that entry.
Fails(file) ==
  \/ cnffiles[file].kind = "dir"
  \/ ~IsXz(cnffiles[file].data)
  \/ /\ PathExists(caseSensitive, extracted, WithoutXz(file))
     /\ extracted[Resolve(caseSensitive, extracted, WithoutXz(file))].kind
          = "dir"

\* C4: after a run without failures the destination holds, for every
\* entry named *.cnf.xz, the file named without the last three characters
\* whose content is the entry's decompressed content, and an entry of
\* another name has left neither a destination file nor a report.
C4_EveryMatchingEntryExtracted ==
  (epc = "done" /\ \A i \in 1..Len(eout) : eout[i].msg # ErrorMessage) =>
    \A f \in DOMAIN cnffiles :
      IF IsCompressed(f)
        THEN HoldsFile(extracted, WithoutXz(f), XzDecompress(cnffiles[f].data))
        ELSE /\ \A i \in 1..Len(eout) : eout[i].file # f
             /\ ~PathExists(caseSensitive, extracted, WithoutXz(f))

\* C5: after a run in which some entry failed, every failing entry is
\* reported by name, every other entry named *.cnf.xz has its correct
\* output in the destination, and the completion message is printed.
C5_FailureDoesNotAffectOthers ==
  (epc = "done" /\ \E f \in DOMAIN cnffiles : IsCompressed(f) /\ Fails(f)) =>
    /\ eout[Len(eout)].msg = FinishedMessage
    /\ \A f \in DOMAIN cnffiles :
         IsCompressed(f) =>
           IF Fails(f)
             THEN Reported(ErrorMessage, f)
             ELSE HoldsFile(extracted, WithoutXz(f),
                            XzDecompress(cnffiles[f].data))

\* C7: the destination folder after a run of the Extractor is the one the
\* preceding run (on the same source folder) left: same names, same
\* content per name.
C7_SecondRunChangesNothing ==
  \A i \in 1..(Len(hist) - 1) :
    hist[i + 1].src = hist[i].src => hist[i + 1].out = hist[i].out

\* Two completed runs, the second of which extracted a file.
C7_Witness ==
  /\ Len(hist) = 2
  /\ epc = "done"
  /\ \E i \in 1..Len(eout) : eout[i].msg = ExtractedMessage
  /\ extracted # <<>>

\* C8: no step removes or changes an entry of either destination folder.
C8_DestinationFilesNeverMutated ==
  [][ /\ \A n \in DOMAIN extracted :
           n \in DOMAIN extracted' /\ extracted'[n] = extracted[n]
      /\ \A n \in DOMAIN cnffiles :
           n \in DOMAIN cnffiles' /\ cnffiles'[n] = cnffiles[n] ]_vars

\* C9: two distinct entries named *.cnf.xz that a run has processed have
\* two distinct output names.
C9_OutputNamesDistinct ==
  epc # "idle" =>
    \A i, j \in 1..(ei - 1) :
      (i # j /\ IsCompressed(listing[i]) /\ IsCompressed(listing[j]))
        => Key(caseSensitive, CnfFilename(listing[i]))
             # Key(caseSensitive, CnfFilename(listing[j]))

====
